---- MODULE Spec2Model ----
(***************************************************************************)
(* Model of codegen/src/json_schema.rs: PropType::from_schema, the         *)
(* recursive resolver from a JsonSchema node and a context name to a       *)
(* PropType.                                                               *)
(*                                                                         *)
(* Strings whose characters matter (names, ids, $ref values) are sequences *)
(* of one-character strings.  Option<T> is a sequence of length at most    *)
(* one.  A HashMap is its entries in document order together with the      *)
(* permutation in which the map iterates over them.                        *)
(***************************************************************************)
EXTENDS Integers, Sequences, FiniteSets, TLC

VARIABLES schema, name, pc, result, again, diags

vars == <<schema, name, pc, result, again, diags>>

----------------------------------------------------------------------------
(* Bounds of the model                                                     *)

MaxDepth == 1

MaxProps == 2

MaxRefLen == 4

----------------------------------------------------------------------------
(* Option<T>                                                               *)

None == << >>

Some(x) == << x >>

IsSome(o) == Len(o) = 1

Unwrap(o) == o[1]

----------------------------------------------------------------------------
(* Characters and the Inflector conversions the resolver calls             *)

LowerSeq ==
  << "a","b","c","d","e","f","g","h","i","j","k","l","m",
     "n","o","p","q","r","s","t","u","v","w","x","y","z" >>

UpperSeq ==
  << "A","B","C","D","E","F","G","H","I","J","K","L","M",
     "N","O","P","Q","R","S","T","U","V","W","X","Y","Z" >>

DigitSeq == << "0","1","2","3","4","5","6","7","8","9" >>

IsLower(c) == \E i \in DOMAIN LowerSeq : LowerSeq[i] = c

IsUpper(c) == \E i \in DOMAIN UpperSeq : UpperSeq[i] = c

IsNumeric(c) == \E i \in DOMAIN DigitSeq : DigitSeq[i] = c

IsAlphanumeric(c) == IsLower(c) \/ IsUpper(c) \/ IsNumeric(c)

ToUpper(c) ==
  IF IsLower(c) THEN UpperSeq[CHOOSE i \in DOMAIN LowerSeq : LowerSeq[i] = c] ELSE c

ToLower(c) ==
  IF IsUpper(c) THEN LowerSeq[CHOOSE i \in DOMAIN UpperSeq : UpperSeq[i] = c] ELSE c

(* Inflector's camel-like conversion with the PascalCase options: every    *)
(* non-alphanumeric character separates words and is dropped, a digit is   *)
(* kept and starts a new word, a lower-to-upper transition starts a new    *)
(* word, the first character of a word is upper-cased, the rest lowered.   *)
RECURSIVE PascalLoop(_, _)
PascalLoop(s, n) ==
  IF n = 0
  THEN [out |-> << >>, new_word |-> TRUE, last_char |-> " ", found |-> FALSE]
  ELSE LET st == PascalLoop(s, n - 1)
           c  == s[n]
       IN  IF ~IsAlphanumeric(c) /\ st.found
             THEN [st EXCEPT !.new_word = TRUE]
           ELSE IF ~st.found /\ ~IsAlphanumeric(c)
             THEN st
           ELSE IF IsNumeric(c)
             THEN [st EXCEPT !.found = TRUE, !.new_word = TRUE,
                             !.out = Append(st.out, c)]
           ELSE IF st.new_word \/ (IsLower(st.last_char) /\ IsUpper(c))
             THEN [st EXCEPT !.found = TRUE, !.new_word = FALSE,
                             !.out = Append(st.out, ToUpper(c))]
           ELSE [st EXCEPT !.found = TRUE, !.last_char = c,
                           !.out = Append(st.out, ToLower(c))]

to_pascal_case(s) == PascalLoop(s, Len(s)).out

(* Inflector's singularisation, for the names of this model: a name ending *)
(* in "ss" is kept, any other name ending in "s" loses that "s".           *)
to_singular(s) ==
  LET n == Len(s)
  IN  IF n >= 2 /\ s[n] = "s" /\ s[n - 1] = "s" THEN s
      ELSE IF n >= 1 /\ s[n] = "s" THEN SubSeq(s, 1, n - 1)
      ELSE s

----------------------------------------------------------------------------
(* str::split on a pattern, as the $ref arm uses it                        *)

StartsAt(s, i, pat) ==
  /\ i + Len(pat) - 1 <= Len(s)
  /\ \A k \in 1..Len(pat) : s[i + k - 1] = pat[k]

(* def.split(pat).last(): what follows the last occurrence of pat          *)
RECURSIVE SplitLastFrom(_, _, _)
SplitLastFrom(s, pat, i) ==
  IF i < 1 THEN s
  ELSE IF StartsAt(s, i, pat) THEN SubSeq(s, i + Len(pat), Len(s))
  ELSE SplitLastFrom(s, pat, i - 1)

SplitLast(s, pat) == SplitLastFrom(s, pat, Len(s) - Len(pat) + 1)

(* x.split(c).next(): what precedes the first occurrence of c              *)
RECURSIVE SplitFirstFrom(_, _, _)
SplitFirstFrom(s, c, i) ==
  IF i > Len(s) THEN s
  ELSE IF s[i] = c THEN SubSeq(s, 1, i - 1)
  ELSE SplitFirstFrom(s, c, i + 1)

SplitFirst(s, c) == SplitFirstFrom(s, c, 1)

----------------------------------------------------------------------------
(* JsonSchema                                                              *)

JsonSchema ==
  [ id |-> None, ty |-> None,
    properties |-> None, prop_order |-> << >>, required |-> None,
    items |-> None,
    pattern_properties |-> None, pp_order |-> << >>,
    definition_ref |-> None, one_of |-> None ]

(* Variant of HashIter: the map yields its entries in document order       *)
HashIter_document_order(entries, order) == entries

(* HashMap::iter(): the entries in the map's own order                     *)
HashIter(entries, order) == [i \in 1..Len(entries) |-> entries[order[i]]]

----------------------------------------------------------------------------
(* PropType; Panic stands for a call that unwinds without a value          *)

Str == [kind |-> "Str"]

IntT == [kind |-> "Int"]

Num == [kind |-> "Num"]

Bool == [kind |-> "Bool"]

Null == [kind |-> "Null"]

Ref(n) == [kind |-> "Ref", name |-> n]

Obj(n, fs) == [kind |-> "Obj", name |-> n, fields |-> fs]

Arr(t) == [kind |-> "Arr", inner |-> t]

Map(t) == [kind |-> "Map", inner |-> t]

Optional(t) == [kind |-> "Optional", inner |-> t]

Enum(n, vs) == [kind |-> "Enum", name |-> n, variants |-> vs]

Panic == [kind |-> "Panic"]

JsonObjectFieldInfo(n, t, r) == [name |-> n, ty |-> t, rename |-> r]

JsonEnumVariant(n, t) == [name |-> n, inner |-> t]

(* A call's outcome: the value (or Panic) and the lines it printed         *)
Outcome(t, d) == [ty |-> t, diags |-> d]

----------------------------------------------------------------------------
(* The pieces of from_schema                                               *)

(* Variant of Dispatch: oneOf is looked at before $ref                      *)
Dispatch_one_of_first(s) ==
  IF IsSome(s.one_of) THEN "one_of"
  ELSE IF IsSome(s.definition_ref) THEN "ref"
  ELSE IF ~IsSome(s.ty) THEN "unknown"
  ELSE IF Unwrap(s.ty) \in {"boolean", "string", "integer", "number", "null",
                            "array", "object"}
       THEN Unwrap(s.ty)
  ELSE "unknown"

(* Variant of Dispatch: a missing or unknown type resolves as null         *)
Dispatch_unknown_as_null(s) ==
  IF IsSome(s.definition_ref) THEN "ref"
  ELSE IF IsSome(s.one_of) THEN "one_of"
  ELSE IF ~IsSome(s.ty) THEN "null"
  ELSE IF Unwrap(s.ty) \in {"boolean", "string", "integer", "number", "null",
                            "array", "object"}
       THEN Unwrap(s.ty)
  ELSE "null"

(* Which arm of from_schema a node takes                                   *)
Dispatch(s) ==
  IF IsSome(s.definition_ref) THEN "ref"
  ELSE IF IsSome(s.one_of) THEN "one_of"
  ELSE IF ~IsSome(s.ty) THEN "unknown"
  ELSE IF Unwrap(s.ty) \in {"boolean", "string", "integer", "number", "null",
                            "array", "object"}
       THEN Unwrap(s.ty)
  ELSE "unknown"

(* Variant of ref_name: the '.'-suffix is kept                              *)
ref_name_keeps_suffix(def) == to_pascal_case(SplitLast(def, <<"#", "/">>))

ref_name(def) == to_pascal_case(SplitFirst(SplitLast(def, <<"#", "/">>), "."))

(* Variant of variant_name: the id is appended as written                   *)
variant_name_raw_id(n, id) == n \o id

variant_name(n, id) == n \o to_pascal_case(id)

(* Variant of item_name: the context name is passed on unchanged            *)
item_name_unchanged(n) == n

item_name(n) == to_singular(n)

(* Variant of pattern_name: the entry is resolved under the singular name   *)
pattern_name_singular(n) == to_singular(n)

pattern_name(n) == n

(* pp.iter().next(): the first entry the map yields                        *)
first_pattern(s) == HashIter(Unwrap(s.pattern_properties), s.pp_order)[1]

(* Variant of is_empty: the diagnostic is never due                         *)
is_empty_never(p) == FALSE

is_empty(p) == Len(p) = 0

(* Variant of field_name: the substitute is used, the rename is not kept    *)
field_name_without_rename(orig_name) ==
  IF orig_name = <<"t","y","p","e">>
    THEN [name |-> <<"t","y">>, rename |-> None]
  ELSE IF orig_name = <<"s","e","l","f">>
    THEN [name |-> <<"s","l","f">>, rename |-> None]
  ELSE [name |-> orig_name, rename |-> None]

field_name(orig_name) ==
  IF orig_name = <<"t","y","p","e">>
    THEN [name |-> <<"t","y">>, rename |-> Some(orig_name)]
  ELSE IF orig_name = <<"s","e","l","f">>
    THEN [name |-> <<"s","l","f">>, rename |-> Some(orig_name)]
  ELSE [name |-> orig_name, rename |-> None]

field_ty_name(n, orig_name) == n \o to_pascal_case(orig_name)

Contains(seq, x) == \E i \in DOMAIN seq : seq[i] = x

(* Variant of required_ty: without a required list every field is required *)
required_ty_absent_list_requires(s, orig_name, ty) ==
  IF IsSome(s.required)
  THEN IF ~Contains(Unwrap(s.required), orig_name) THEN Optional(ty) ELSE ty
  ELSE ty

required_ty(s, orig_name, ty) ==
  IF IsSome(s.required)
  THEN IF ~Contains(Unwrap(s.required), orig_name) THEN Optional(ty) ELSE ty
  ELSE Optional(ty)

object_name(n) == n

----------------------------------------------------------------------------
(* PropType::from_schema                                                   *)

RECURSIVE from_schema(_, _), Variants(_, _, _), Fields(_, _, _, _)

(* The first n oneOf branches mapped to variants, left to right; the       *)
(* first branch that panics ends the collection.                           *)
Variants(one_of, n, k) ==
  IF k = 0 THEN [ok |-> TRUE, items |-> << >>, diags |-> 0]
  ELSE LET prev == Variants(one_of, n, k - 1)
           o    == one_of[k]
       IN  IF ~prev.ok THEN prev
           ELSE IF ~IsSome(o.id)
             THEN [ok |-> FALSE, items |-> << >>, diags |-> prev.diags]
           ELSE LET vn == variant_name(n, Unwrap(o.id))
                    r  == from_schema(o, vn)
                IN  IF r.ty.kind = "Panic"
                      THEN [ok |-> FALSE, items |-> << >>,
                            diags |-> prev.diags + r.diags]
                    ELSE [ok |-> TRUE,
                          items |-> Append(prev.items, JsonEnumVariant(vn, r.ty)),
                          diags |-> prev.diags + r.diags]

(* The first k entries of the property map p mapped to fields              *)
Fields(s, p, n, k) ==
  IF k = 0 THEN [ok |-> TRUE, items |-> << >>, diags |-> 0]
  ELSE LET prev == Fields(s, p, n, k - 1)
           orig == p[k].name
       IN  IF ~prev.ok THEN prev
           ELSE LET fr == field_name(orig)
                    r  == from_schema(p[k].schema, field_ty_name(n, orig))
                IN  IF r.ty.kind = "Panic"
                      THEN [ok |-> FALSE, items |-> << >>,
                            diags |-> prev.diags + r.diags]
                    ELSE [ok |-> TRUE,
                          items |-> Append(prev.items,
                                      JsonObjectFieldInfo(fr.name,
                                        required_ty(s, orig, r.ty), fr.rename)),
                          diags |-> prev.diags + r.diags]

from_schema(s, n) ==
  LET arm == Dispatch(s)
  IN  CASE arm = "ref" -> Outcome(Ref(ref_name(Unwrap(s.definition_ref))), 0)
        [] arm = "one_of" ->
             LET one_of == Unwrap(s.one_of)
                 vs     == Variants(one_of, n, Len(one_of))
             IN  IF vs.ok THEN Outcome(Enum(n, vs.items), vs.diags)
                 ELSE Outcome(Panic, vs.diags)
        [] arm = "boolean" -> Outcome(Bool, 0)
        [] arm = "string" -> Outcome(Str, 0)
        [] arm = "integer" -> Outcome(IntT, 0)
        [] arm = "number" -> Outcome(Num, 0)
        [] arm = "null" -> Outcome(Null, 0)
        [] arm = "array" ->
             IF IsSome(s.items)
             THEN LET subobj == from_schema(Unwrap(s.items), item_name(n))
                  IN  IF subobj.ty.kind = "Panic" THEN subobj
                      ELSE Outcome(Arr(subobj.ty), subobj.diags)
             ELSE Outcome(Panic, 0)
        [] arm = "object" ->
             IF IsSome(s.pattern_properties)
             THEN IF Len(Unwrap(s.pattern_properties)) = 0
                  THEN Outcome(Panic, 0)
                  ELSE LET subobj == from_schema(first_pattern(s).schema,
                                                 pattern_name(n))
                       IN  IF subobj.ty.kind = "Panic" THEN subobj
                           ELSE Outcome(Map(subobj.ty), subobj.diags)
             ELSE IF ~IsSome(s.properties) THEN Outcome(Panic, 0)
             ELSE LET p  == HashIter(Unwrap(s.properties), s.prop_order)
                      d0 == IF is_empty(p) THEN 1 ELSE 0
                      fs == Fields(s, p, n, Len(p))
                  IN  IF fs.ok
                      THEN Outcome(Obj(object_name(n), fs.items), d0 + fs.diags)
                      ELSE Outcome(Panic, d0 + fs.diags)
        [] OTHER -> Outcome(Panic, 0)

----------------------------------------------------------------------------
(* The schema documents of the model                                       *)

ContextNames == { <<"P","e","t","s">>, <<"B","o","s","s">> }

PropNames == { <<"t","y","p","e">>, <<"s","e","l","f">>, <<"p","e","t","s">> }

OtherName == <<"i","d">>

TypeStrings ==
  {"boolean", "string", "integer", "number", "null", "array", "object", "bogus"}

IdSeq == << <<"c","a","t">>, <<"d","o","g">>, <<"e","m","u">>, <<"f","o","x">> >>

PatSeq == << <<"^","a">>, <<"^","b">>, <<"^","c">>, <<"^","d">> >>

Ref0 == <<"#","/","p","e","t">>

Ident(n) == [i \in 1..n |-> i]

Perms(n) == {p \in [1..n -> 1..n] : \A i, j \in 1..n : i # j => p[i] # p[j]}

InjSeqs(S, n) == {q \in [1..n -> S] : \A i, j \in 1..n : i # j => q[i] # q[j]}

Entry(n, s) == [name |-> n, schema |-> s]

Prim(t) == [JsonSchema EXCEPT !.ty = Some(t)]

RefNode(r) == [JsonSchema EXCEPT !.definition_ref = Some(r)]

ArrayOf(x) == [JsonSchema EXCEPT !.ty = Some("array"), !.items = Some(x)]

ObjectOf(entries, order, req) ==
  [JsonSchema EXCEPT !.ty = Some("object"), !.properties = Some(entries),
                     !.prop_order = order, !.required = req]

PatternOf(entries, order) ==
  [JsonSchema EXCEPT !.ty = Some("object"), !.pattern_properties = Some(entries),
                     !.pp_order = order]

OneOf(branches) == [JsonSchema EXCEPT !.one_of = Some(branches)]

WithId(x, id) == [x EXCEPT !.id = id]

EmptyObject == ObjectOf(<< >>, << >>, None)

Leaves ==
  {JsonSchema, RefNode(Ref0), EmptyObject, PatternOf(<< >>, << >>), OneOf(<< >>)}
    \cup {Prim(t) : t \in TypeStrings}

(* Nodes with one child drawn from X                                       *)
Wrap1(X) ==
  {ArrayOf(x) : x \in X}
    \cup {PatternOf(<<Entry(PatSeq[1], x)>>, Ident(1)) : x \in X}
    \cup {ObjectOf(<<Entry(pn, x)>>, Ident(1), req) :
            pn \in PropNames, x \in X, req \in {None}}
    \cup {ObjectOf(<<Entry(pn, x)>>, Ident(1), Some(<<pn>>)) :
            pn \in PropNames, x \in X}
    \cup {OneOf(<<WithId(x, id)>>) : x \in X, id \in {None, Some(IdSeq[1])}}

RECURSIVE Chain(_)
Chain(d) == IF d = 0 THEN Leaves ELSE Leaves \cup Wrap1(Chain(d - 1))

(* The children of nodes with several children                             *)
Kids == {Prim("string"), Prim("array"), EmptyObject}

RequiredLists(q) ==
  {None, Some(<< >>), Some(<<q[1]>>), Some(<<OtherName, q[Len(q)]>>), Some(q)}

Objects(n) ==
  UNION {{ObjectOf([i \in 1..n |-> Entry(q[i], c[i])], order, req) :
            c \in [1..n -> Kids], order \in Perms(n),
            req \in RequiredLists(q)} : q \in InjSeqs(PropNames, n)}

Patterns(n) ==
  {PatternOf([i \in 1..n |-> Entry(PatSeq[i], c[i])], order) :
     c \in [1..n -> Kids], order \in Perms(n)}

(* n branches, branch m (if any) lacking its id                            *)
OneOfs(n) ==
  {OneOf([i \in 1..n |-> WithId(c[i], IF i = m THEN None ELSE Some(IdSeq[i]))]) :
     c \in [1..n -> Kids], m \in 0..n}

Multi ==
  UNION {Objects(n) \cup Patterns(n) \cup OneOfs(n) : n \in 2..MaxProps}

(* Nodes that carry more than one of $ref, oneOf and type                  *)
RefOver == {[x EXCEPT !.definition_ref = Some(Ref0)] : x \in Chain(1)}

OneOfOver ==
  {[x EXCEPT !.ty = Some(t)] :
     x \in {y \in Chain(1) : IsSome(y.one_of)},
     t \in {"string", "array", "object", "bogus"}}

(* Pattern-property nodes that also declare properties and a required list *)
PatternOver ==
  {[x EXCEPT !.properties = Some(<<Entry(<<"t","y","p","e">>, EmptyObject)>>),
             !.prop_order = Ident(1), !.required = req] :
     x \in {y \in Chain(1) : IsSome(y.pattern_properties)} \cup Patterns(2),
     req \in {None, Some(<< <<"t","y","p","e">> >>)}}

Schemas ==
  Chain(MaxDepth) \cup Multi \cup {ArrayOf(x) : x \in Objects(2)}
    \cup RefOver \cup OneOfOver \cup PatternOver

(* $ref strings: every string over RefChars up to MaxRefLen, and some      *)
(* strings of the shapes schema files use                                  *)
RefChars == {"a", "P", "_", "/", ".", "#"}

RefHousePet == <<"#","/","h","o","u","s","e","_","p","e","t">>

RefDefinitionsHousePet ==
  <<"#","/","d","e","f","i","n","i","t","i","o","n","s","/",
    "h","o","u","s","e","_","p","e","t">>

RefFileHousePet ==
  <<"a",".","j","s","o","n","#","/","h","o","u","s","e","_","p","e","t",
    ".","v","1">>

RefStrings ==
  UNION {[1..n -> RefChars] : n \in 0..MaxRefLen}
    \cup {RefHousePet, RefDefinitionsHousePet, RefFileHousePet}

----------------------------------------------------------------------------
(* The resolver run on one document                                        *)

Returned(o) == IF o.ty.kind = "Panic" THEN None ELSE Some(o.ty)

Init ==
  /\ schema \in Schemas
  /\ name \in ContextNames
  /\ pc = "start"
  /\ result = None
  /\ again = None
  /\ diags = 0

(* A call of from_schema on the document: it returns or it panics          *)
Resolve ==
  /\ pc = "start"
  /\ LET o == from_schema(schema, name)
     IN  /\ result' = Returned(o)
         /\ diags' = diags + o.diags
         /\ pc' = IF o.ty.kind = "Panic" THEN "panicked" ELSE "done"
  /\ UNCHANGED <<schema, name, again>>

(* A second call on the same document, after the first returned            *)
Resolve2 ==
  /\ pc = "done"
  /\ LET o == from_schema(schema, name)
     IN  /\ again' = Returned(o)
         /\ diags' = diags + o.diags
         /\ pc' = "done2"
  /\ UNCHANGED <<schema, name, result>>

Next == Resolve \/ Resolve2

(* The resolver run on a node that carries a $ref                          *)
InitRef ==
  /\ schema \in {RefNode(r) : r \in RefStrings}
  /\ name = <<"P","e","t","s">>
  /\ pc = "start"
  /\ result = None
  /\ again = None
  /\ diags = 0

SpecRef == InitRef /\ [][Next]_vars

Spec == Init /\ [][Next]_vars

----------------------------------------------------------------------------
(* Vocabulary of the properties                                            *)

Called == pc # "start"

Finished == pc \in {"done", "done2"}

Type(s, n) == from_schema(s, n).ty

Panics(s, n) == Type(s, n).kind = "Panic"

NoRefNoOneOf == ~IsSome(schema.definition_ref) /\ ~IsSome(schema.one_of)

ArrayNode == NoRefNoOneOf /\ schema.ty = Some("array")

ObjectTyped == NoRefNoOneOf /\ schema.ty = Some("object")

PatternNode == ObjectTyped /\ IsSome(schema.pattern_properties)

PropertiesNode ==
  ObjectTyped /\ ~IsSome(schema.pattern_properties) /\ IsSome(schema.properties)

(* The name a field has on the wire                                        *)
WireName(f) == IF IsSome(f.rename) THEN Unwrap(f.rename) ELSE f.name

IsRequired(orig_name) ==
  IsSome(schema.required) /\ Contains(Unwrap(schema.required), orig_name)

Reserved == { <<"t","y","p","e">>, <<"s","e","l","f">> }

Declared == Unwrap(schema.properties)

Iterated == HashIter(Declared, schema.prop_order)

----------------------------------------------------------------------------
(* C1: in every node resolved to an Object, the field of a declared        *)
(* property is non-Optional exactly when the node has a required list      *)
(* that contains the property's original name; otherwise its type is       *)
(* Optional wrapping the property's resolved type once.                    *)
C1_OptionalUnlessRequired ==
  (Finished /\ Unwrap(result).kind = "Obj") =>
    \A j \in DOMAIN Declared :
      LET orig == Declared[j].name
          fs   == Unwrap(result).fields
      IN  \E i \in DOMAIN fs :
            /\ WireName(fs[i]) = orig
            /\ (fs[i].ty.kind # "Optional") <=> IsRequired(orig)
            /\ ~IsRequired(orig) =>
                 /\ fs[i].ty.kind = "Optional"
                 /\ fs[i].ty.inner.kind # "Optional"
                 /\ fs[i].ty.inner =
                      Type(Declared[j].schema, name \o to_pascal_case(orig))

C1_Witness ==
  /\ pc = "done"
  /\ Unwrap(result).kind = "Obj"
  /\ IsSome(schema.required)
  /\ \E i, j \in DOMAIN Unwrap(result).fields :
       /\ Unwrap(result).fields[i].ty.kind = "Optional"
       /\ Unwrap(result).fields[j].ty.kind # "Optional"

----------------------------------------------------------------------------
(* C2 as claimed: the Reference name is the case-converted final           *)
(* '/'-delimited segment of the $ref string, cut at its '.'-suffix.        *)
C2_FinalSlashSegment ==
  (Finished /\ IsSome(schema.definition_ref)) =>
    result = Some(Ref(to_pascal_case(
               SplitFirst(SplitLast(Unwrap(schema.definition_ref), <<"/">>), "."))))

(* No "#/" begins at or after position i of s                              *)
NoFragmentFrom(s, i) ==
  \A k \in i..(Len(s) - 1) : ~(s[k] = "#" /\ s[k + 1] = "/")

(* C2 as amended: the Reference name is the case-converted text that       *)
(* follows the last "#/" of the $ref string (the whole string when it has  *)
(* none), up to its first '.'; "#/house_pet" yields HousePet and           *)
(* "#/definitions/house_pet" yields DefinitionsHousePet.                   *)
C2_AfterLastFragment ==
  (Finished /\ IsSome(schema.definition_ref)) =>
    LET def == Unwrap(schema.definition_ref)
    IN  /\ \E k \in 0..Len(def) :
             /\ \/ k = 0 /\ NoFragmentFrom(def, 1)
                \/ k >= 2 /\ def[k - 1] = "#" /\ def[k] = "/"
                          /\ NoFragmentFrom(def, k)
             /\ \E m \in k..Len(def) :
                  /\ \A x \in (k + 1)..m : def[x] # "."
                  /\ m = Len(def) \/ def[m + 1] = "."
                  /\ result = Some(Ref(to_pascal_case(SubSeq(def, k + 1, m))))
        /\ def = RefHousePet =>
             Unwrap(result).name = <<"H","o","u","s","e","P","e","t">>
        /\ def = RefFileHousePet =>
             Unwrap(result).name = <<"H","o","u","s","e","P","e","t">>
        /\ def = RefDefinitionsHousePet =>
             Unwrap(result).name =
               <<"D","e","f","i","n","i","t","i","o","n","s",
                 "H","o","u","s","e","P","e","t">>

C2_Witness ==
  /\ pc = "done"
  /\ schema.definition_ref = Some(RefFileHousePet)
  /\ result = Some(Ref(<<"H","o","u","s","e","P","e","t">>))

----------------------------------------------------------------------------
(* C3: a node without $ref whose oneOf has N branches, each with an id,    *)
(* resolves to an Enum named by the context name with N variants in        *)
(* branch order; variant i is named contextName + case-converted id of     *)
(* branch i and holds branch i resolved under that name.  (The call has    *)
(* no value exactly when resolving some branch has none.)                  *)
C3_OneVariantPerBranch ==
  ( /\ Called
    /\ ~IsSome(schema.definition_ref)
    /\ IsSome(schema.one_of)
    /\ \A i \in DOMAIN Unwrap(schema.one_of) : IsSome(Unwrap(schema.one_of)[i].id) )
  =>
    LET one_of  == Unwrap(schema.one_of)
        vn(i)   == name \o to_pascal_case(Unwrap(one_of[i].id))
    IN  /\ (pc = "panicked") <=> \E i \in DOMAIN one_of : Panics(one_of[i], vn(i))
        /\ Finished =>
             /\ Unwrap(result).kind = "Enum"
             /\ Unwrap(result).name = name
             /\ Len(Unwrap(result).variants) = Len(one_of)
             /\ \A i \in DOMAIN one_of :
                  /\ Unwrap(result).variants[i].name = vn(i)
                  /\ Unwrap(result).variants[i].inner = Type(one_of[i], vn(i))

C3_Witness ==
  /\ pc = "done"
  /\ IsSome(schema.one_of)
  /\ Len(Unwrap(schema.one_of)) = 2
  /\ Unwrap(result).kind = "Enum"
  /\ Len(Unwrap(result).variants) = 2
  /\ Unwrap(result).variants[2].name = name \o <<"D","o","g">>
  /\ Unwrap(result).variants[2].inner.kind = "Obj"

----------------------------------------------------------------------------
(* C4: an array-typed node (no $ref, no oneOf) with an item schema         *)
(* resolves to an Array wrapping the item schema resolved under the        *)
(* singularised context name; without an item schema the call fails and    *)
(* returns no type node.                                                   *)
C4_ArrayOfSingularItem ==
  (Called /\ ArrayNode) =>
    IF IsSome(schema.items)
    THEN LET inner == Type(Unwrap(schema.items), to_singular(name))
         IN  IF inner.kind = "Panic"
             THEN pc = "panicked" /\ result = None
             ELSE Finished /\ result = Some(Arr(inner))
    ELSE pc = "panicked" /\ result = None

C4_Witness ==
  /\ pc = "done"
  /\ ArrayNode
  /\ name = <<"P","e","t","s">>
  /\ Unwrap(result).kind = "Arr"
  /\ Unwrap(result).inner.kind = "Obj"
  /\ Unwrap(result).inner.name = <<"P","e","t">>

----------------------------------------------------------------------------
(* The children of a node that the recursion resolves                      *)
Reached(s) ==
  IF IsSome(s.definition_ref) THEN << >>
  ELSE IF IsSome(s.one_of) THEN Unwrap(s.one_of)
  ELSE IF s.ty = Some("array")
    THEN (IF IsSome(s.items) THEN <<Unwrap(s.items)>> ELSE << >>)
  ELSE IF s.ty = Some("object")
    THEN IF IsSome(s.pattern_properties)
         THEN (IF Len(Unwrap(s.pattern_properties)) = 0 THEN << >>
               ELSE <<Unwrap(s.pattern_properties)[s.pp_order[1]].schema>>)
         ELSE IF IsSome(s.properties)
         THEN [i \in DOMAIN Unwrap(s.properties) |-> Unwrap(s.properties)[i].schema]
         ELSE << >>
  ELSE << >>

Recognized == {"boolean", "string", "integer", "number", "null", "array", "object"}

NoRefNoOneOfAt(s) == ~IsSome(s.definition_ref) /\ ~IsSome(s.one_of)

(* (a) an array-typed node with no item schema                             *)
ArrayWithoutItems(s) ==
  NoRefNoOneOfAt(s) /\ s.ty = Some("array") /\ ~IsSome(s.items)

(* (b) a node with no $ref, no oneOf and no recognized declared type       *)
Unresolvable(s) ==
  NoRefNoOneOfAt(s) /\ (~IsSome(s.ty) \/ Unwrap(s.ty) \notin Recognized)

(* (c) an object-typed node with neither patternProperties nor properties  *)
ObjectWithoutProperties(s) ==
  /\ NoRefNoOneOfAt(s) /\ s.ty = Some("object")
  /\ ~IsSome(s.pattern_properties) /\ ~IsSome(s.properties)

(* (d) an object-typed node whose patternProperties map is empty           *)
EmptyPatternProperties(s) ==
  /\ NoRefNoOneOfAt(s) /\ s.ty = Some("object")
  /\ IsSome(s.pattern_properties) /\ Len(Unwrap(s.pattern_properties)) = 0

(* (e) a oneOf node, without $ref, with a branch that has no id            *)
BranchWithoutId(s) ==
  /\ ~IsSome(s.definition_ref) /\ IsSome(s.one_of)
  /\ \E i \in DOMAIN Unwrap(s.one_of) : ~IsSome(Unwrap(s.one_of)[i].id)

RECURSIVE TwoClassFatal(_)
TwoClassFatal(s) ==
  \/ ArrayWithoutItems(s)
  \/ Unresolvable(s)
  \/ \E i \in DOMAIN Reached(s) : TwoClassFatal(Reached(s)[i])

RECURSIVE Fatal(_)
Fatal(s) ==
  \/ ArrayWithoutItems(s)
  \/ Unresolvable(s)
  \/ ObjectWithoutProperties(s)
  \/ EmptyPatternProperties(s)
  \/ BranchWithoutId(s)
  \/ \E i \in DOMAIN Reached(s) : Fatal(Reached(s)[i])

RECURSIVE SomeBranchWithoutId(_)
SomeBranchWithoutId(s) ==
  \/ BranchWithoutId(s)
  \/ \E i \in DOMAIN Reached(s) : SomeBranchWithoutId(Reached(s)[i])

(* C5 as claimed: the call fails exactly when some reached node is an      *)
(* array-typed node without an item schema or a node with no $ref, no      *)
(* oneOf and no recognized type; every other node yields a type node.      *)
(* Stated for the documents whose oneOf branches all carry an id, which a  *)
(* branch must have to be named at all.                                    *)
C5_TwoFatalClasses ==
  (Called /\ ~SomeBranchWithoutId(schema)) =>
    ((pc = "panicked") <=> TwoClassFatal(schema))

(* C5 as amended: the call fails exactly when some reached node is (a) an  *)
(* array-typed node without an item schema, (b) a node with no $ref, no    *)
(* oneOf and no recognized type, (c) an object-typed node with neither     *)
(* patternProperties nor properties, (d) an object-typed node whose        *)
(* patternProperties map is empty, or (e) a oneOf node with a branch that  *)
(* has no id; a failure at any depth leaves the top-level call without a   *)
(* result, and every other call returns a type node.                       *)
C5_FatalClasses ==
  Called =>
    /\ (pc = "panicked") <=> Fatal(schema)
    /\ (pc = "panicked") => result = None
    /\ Finished => IsSome(result) /\ Unwrap(result).kind # "Panic"

C5_Witness ==
  /\ pc = "panicked"
  /\ result = None
  /\ ObjectTyped
  /\ IsSome(schema.properties)
  /\ Len(Declared) = 2
  /\ \E i \in DOMAIN Declared : ArrayWithoutItems(Declared[i].schema)
  /\ \E i \in DOMAIN Declared : ~Fatal(Declared[i].schema)

----------------------------------------------------------------------------
(* C6: in a node resolved to an Object, a property named "type" or "self"  *)
(* gets an identifier that differs from its name and rename metadata equal *)
(* to its name; any other property keeps its name and has no rename.  A    *)
(* required property keeps a non-Optional type whatever its identifier.    *)
C6_ReservedNamesRenamed ==
  (Finished /\ Unwrap(result).kind = "Obj") =>
    LET fs == Unwrap(result).fields
    IN  /\ Len(fs) = Len(Iterated)
        /\ \A i \in DOMAIN fs :
             LET orig == Iterated[i].name
             IN  /\ orig \in Reserved =>
                      fs[i].name # orig /\ fs[i].rename = Some(orig)
                 /\ orig \notin Reserved =>
                      fs[i].name = orig /\ fs[i].rename = None
                 /\ IsRequired(orig) => fs[i].ty.kind # "Optional"

C6_Witness ==
  /\ pc = "done"
  /\ Unwrap(result).kind = "Obj"
  /\ \E i \in DOMAIN Unwrap(result).fields :
       /\ Unwrap(result).fields[i].rename = Some(<<"t","y","p","e">>)
       /\ Unwrap(result).fields[i].name # <<"t","y","p","e">>
       /\ Unwrap(result).fields[i].ty = Str
  /\ \E i \in DOMAIN Unwrap(result).fields :
       Unwrap(result).fields[i].rename = None

----------------------------------------------------------------------------
(* The object nodes with an empty property map among the nodes resolved    *)
RECURSIVE Sum(_)
Sum(q) == IF Len(q) = 0 THEN 0 ELSE Head(q) + Sum(Tail(q))

RECURSIVE EmptyObjects(_)
EmptyObjects(s) ==
  (IF /\ NoRefNoOneOfAt(s) /\ s.ty = Some("object")
      /\ ~IsSome(s.pattern_properties)
      /\ IsSome(s.properties) /\ Len(Unwrap(s.properties)) = 0
   THEN 1 ELSE 0)
  + Sum([i \in DOMAIN Reached(s) |-> EmptyObjects(Reached(s)[i])])

(* C7: an object-typed node whose property map is present and empty does   *)
(* not fail: it resolves to an Object with the context name and no fields  *)
(* and prints one diagnostic; a node with properties prints none of its    *)
(* own; a resolution that returns has printed one diagnostic per           *)
(* empty-property object node resolved.                                    *)
C7_OneDiagnosticPerEmptyObject ==
  /\ (Called /\ PropertiesNode /\ Len(Declared) = 0) =>
       /\ Finished
       /\ result = Some(Obj(name, << >>))
       /\ pc = "done" => diags = 1
  /\ (pc = "done" /\ PropertiesNode /\ Len(Declared) > 0) =>
       diags = Sum([i \in DOMAIN Declared |->
                      from_schema(Declared[i].schema,
                                  name \o to_pascal_case(Declared[i].name)).diags])
  /\ pc = "done" => diags = EmptyObjects(schema)
  /\ pc = "done2" => diags = 2 * EmptyObjects(schema)

C7_Witness ==
  /\ pc = "done"
  /\ PropertiesNode
  /\ Len(Declared) = 2
  /\ diags = 2
  /\ Unwrap(result).kind = "Obj"

----------------------------------------------------------------------------
(* The node with only its $ref kept, and with its declared type erased     *)
OnlyRef(s) == RefNode(Unwrap(s.definition_ref))

WithoutType(s) == [s EXCEPT !.ty = None]

(* C8: dispatch is by priority.  A node with a $ref resolves to the        *)
(* Reference of that $ref whatever else it carries, never fails and        *)
(* resolves none of its children; a node without $ref but with oneOf       *)
(* resolves as it would without its declared type, to an Enum when it      *)
(* returns.                                                                *)
C8_DispatchByPriority ==
  /\ (Called /\ IsSome(schema.definition_ref)) =>
       /\ Finished
       /\ Unwrap(result).kind = "Ref"
       /\ result = Some(Type(OnlyRef(schema), name))
       /\ diags = 0
  /\ (Called /\ ~IsSome(schema.definition_ref) /\ IsSome(schema.one_of)) =>
       /\ Finished => Unwrap(result).kind = "Enum"
       /\ result = Returned(from_schema(WithoutType(schema), name))

C8_Witness ==
  /\ pc = "done"
  /\ IsSome(schema.definition_ref)
  /\ IsSome(schema.one_of)
  /\ Len(Unwrap(schema.one_of)) = 1
  /\ ~IsSome(Unwrap(schema.one_of)[1].id)
  /\ Unwrap(result).kind = "Ref"

----------------------------------------------------------------------------
(* C9 as claimed: an object-typed node whose patternProperties are present *)
(* resolves to a Map wrapping one of the declared entries resolved under   *)
(* the unchanged context name.                                             *)
C9_MapOfOneEntry ==
  (Called /\ PatternNode) =>
    \E i \in DOMAIN Unwrap(schema.pattern_properties) :
      LET inner == Type(Unwrap(schema.pattern_properties)[i].schema, name)
      IN  IF inner.kind = "Panic" THEN pc = "panicked"
          ELSE result = Some(Map(inner))

(* C9 as amended: an object-typed node whose patternProperties are present *)
(* and not empty resolves to a Map wrapping one of the declared entries    *)
(* resolved under the unchanged context name, its properties and required  *)
(* list being ignored; when patternProperties is present and empty the     *)
(* call fails.                                                             *)
C9_MapOfOneEntryUnlessEmpty ==
  (Called /\ PatternNode) =>
    IF Len(Unwrap(schema.pattern_properties)) = 0
    THEN pc = "panicked" /\ result = None
    ELSE /\ \E i \in DOMAIN Unwrap(schema.pattern_properties) :
              LET inner == Type(Unwrap(schema.pattern_properties)[i].schema, name)
              IN  IF inner.kind = "Panic" THEN pc = "panicked" /\ result = None
                  ELSE Finished /\ result = Some(Map(inner))
         /\ result = Returned(from_schema(
                       [schema EXCEPT !.properties = None, !.prop_order = << >>,
                                      !.required = None], name))

C9_Witness ==
  /\ pc = "done"
  /\ PatternNode
  /\ Len(Unwrap(schema.pattern_properties)) = 2
  /\ IsSome(schema.properties)
  /\ IsSome(schema.required)
  /\ Unwrap(result).kind = "Map"
  /\ Unwrap(result).inner = Obj(name, << >>)

----------------------------------------------------------------------------
(* The type a field wraps                                                  *)
Unwrapped(t) == IF t.kind = "Optional" THEN t.inner ELSE t

====
